---- MODULE Spec2Model ----
(***************************************************************************)
(* File2JSON: the conversion orchestrator (converter_tool/processor.py),   *)
(* its command-line driver (converter_tool/cli.py) and the archive handler *)
(* (converter_tool/converters/archive_converter.py) as state machines.     *)
(*                                                                         *)
(* Spec         one CLI run: main() -> FileProcessor.process() with a      *)
(*              ThreadPoolExecutor of `workers` threads, one future per    *)
(*              discovered file, then the optional master.json.           *)
(* SpecInterruptible  the same run, with a KeyboardInterrupt possible      *)
(*              while process is under way.                                *)
(* ArchiveSpec  one ArchiveConverter.convert() of a ZIP or TAR archive,    *)
(*              entry by entry, with nested conversions on a call stack.    *)
(* ArchiveSpecFair  the same for the budget the orchestrator gives, every   *)
(*              step of the handler eventually taken.                       *)
(* PoolSpec     a run for every workers argument and every os.cpu_count().  *)
(* ProcessorSpec  one FileProcessor whose process is called more than once. *)
(* LibSpec      calls of registry.get_converter, utils.detect_file_type and *)
(*              BaseConverter.convert on their own, inputs and environment  *)
(*              chosen per call; likewise utils.extract_metadata and the    *)
(*              _extract_data of the PDF, packet-capture and text handlers. *)
(***************************************************************************)
EXTENDS Integers, Sequences, FiniteSets, TLC

\* ------------------------------------------------------------------ bounds
MaxFiles == 2
MaxWorkers == 2
MaxEntries == 2
MaxNest == 4
MaxCalls == 2
MaxChunks == 2
MaxMtime == 1
MaxLines == 2

\* ------------------------------------------------------------ value spaces
\* Detected tags the input files of the model carry, and the stems of their
\* names (two files may share a stem: a.csv and a.txt both give a.json).
Tags == {"csv", "txt"}
Stems == {"a", "b"}
FilterChoices == {{}, {"csv"}}
FileDescs == [tag : Tags, stem : Stems]
PathKinds == {"file", "dir", "other", "missing"}

\* Where one file's processing may raise (the environment decides).
ConvertFaults == {"none", "detect", "construct", "convert"}
WriteFaults == {"none", "open", "dump"}

VARIABLES
    \* ---- configuration of the run (fixed by Init)
    inputKind,        \* what args.input names
    files_to_process, \* the regular files the traversal finds, in order
    overwrite,        \* FileProcessor.overwrite
    formats_filter,   \* FileProcessor.formats_filter (a set; {} is falsy)
    workersArg,       \* the workers argument of FileProcessor: <<n>>, <<>> for None
    cpu_count,        \* what os.cpu_count() gives: <<n>>, <<>> for None
    workers,          \* FileProcessor.workers
    outputs0,         \* the output directory when the run starts
    \* ---- main thread
    pc,               \* position of the main thread
    submitted,        \* how many futures the comprehension has submitted
    collected,        \* futures as_completed has handed to the loop
    converted_files,  \* FileProcessor.converted_files
    failed_files,     \* FileProcessor.failed_files
    counts,           \* what process returned
    raised,           \* the exception that left process, if any
    master,           \* master.json
    exitCode,         \* <<c>> once main has returned c, <<>> before
    \* ---- workers and the shared output directory
    fut,              \* per file: the state of its future / worker
    futResult,        \* per file: what the future holds when done
    outputs,          \* stem -> content of <output_dir>/<stem>.json
    trace,            \* per file: what was logged and called for it
    \* ---- one ArchiveConverter.convert (ArchiveSpec)
    arcKind,          \* detected type of the top-level archive: zip or tar
    arcEntries,       \* its entries, in directory order (what each holds)
    arcBudget,        \* recursion_depth of the top-level handler
    stack,            \* the nested convert calls under way, outermost first
    scratch,          \* the scratch files that exist: <<level, entry>>
    arcResult,        \* how the top-level convert ended
    arcListing,       \* the "files" of the data it returned
    \* ---- library calls outside a run (LibSpec)
    call,             \* the library call of this behaviour: its arguments
                      \* and the environment it runs in (fixed by LibInit)
    registry,         \* registry.CONVERTER_REGISTRY
    lookup,           \* what get_converter returned
    detection,        \* what detect_file_type returned
    conversion,       \* how BaseConverter.convert ended
    ret,              \* how a call of another library function ended
    \* ---- one FileProcessor used for several runs (ProcessorSpec)
    calls             \* the calls of process that have returned before this one

cfgVars == <<inputKind, files_to_process, overwrite, formats_filter,
             workersArg, cpu_count, workers, outputs0>>
mainVars == <<pc, submitted, collected, converted_files, failed_files, counts,
              raised, master, exitCode>>
poolVars == <<fut, futResult, outputs, trace>>
arcVars == <<arcKind, arcEntries, arcBudget, stack, scratch, arcResult, arcListing>>
libVars == <<call, registry, lookup, detection, conversion, ret>>
\* what no step of an orchestrator run changes
fixedVars == <<cfgVars, arcVars, libVars, calls>>
\* what no step of an archive conversion changes
orchVars == <<cfgVars, mainVars, poolVars, libVars, calls>>
vars == <<cfgVars, mainVars, poolVars, arcVars, libVars, calls>>

NFiles == Len(files_to_process)
FileIds == 1..NFiles
NoCounts == [successful |-> -1, failed |-> -1]
NoMaster == [written |-> FALSE]
NotExited == <<>>
\* main's return values (the process exit status)
ExitOk == 0
ExitFailure == 1
ExitInterrupted == 130

Absent == [kind |-> "absent", of |-> 0]
Old == [kind |-> "old", of |-> 0]
Partial(f) == [kind |-> "partial", of |-> f]
Envelope(f) == [kind |-> "envelope", of |-> f]

NoTrace == [outcome |-> "-", error |-> "-", resolved |-> FALSE,
            converts |-> 0, writes |-> 0, runs |-> 0, waiting |-> FALSE]

\* -------------------------------------------------- registry.py 22-36
\* The closed set of detected tags and the handler class registered for each.
ClosedSet ==
    {"evtx", "pcap", "pcapng", "csv", "json", "xml", "txt", "pdf", "docx",
     "zip", "tar", "gzip", "binary"}
CONVERTER_REGISTRY ==
    [t \in ClosedSet |->
        CASE t = "evtx" -> "EvtxConverter"
          [] t \in {"pcap", "pcapng"} -> "PcapConverter"
          [] t = "csv" -> "CsvConverter"
          [] t = "json" -> "JsonConverter"
          [] t = "xml" -> "XmlConverter"
          [] t = "txt" -> "TextConverter"
          [] t = "pdf" -> "PdfConverter"
          [] t = "docx" -> "DocxConverter"
          [] t \in {"zip", "tar", "gzip"} -> "ArchiveConverter"
          [] t = "binary" -> "BinaryConverter"]

\* No library call made yet.
NoCall ==
    [op |-> "-", file_type |-> "-", suffixes |-> <<>>, content |-> "-",
     magic |-> "-", filetype |-> "-", handler |-> "-", metaFault |-> "-",
     dataFault |-> "-", mtime |-> 0, chunks |-> 0, hashFault |-> <<>>,
     first |-> "-", second |-> "-", lines |-> <<>>]
NoLookup == [called |-> FALSE, returned |-> "-"]
NoDetection ==
    [called |-> FALSE, consulted |-> <<>>, detected |-> "-",
     mimetype |-> "-", raised |-> "-"]
\* No digest: the empty string.  No mtime_iso: None.
NoDigest == <<>>
None == <<>>
NoMetadata ==
    [size |-> 0, mtime |-> 0, mtime_iso |-> None, sha256 |-> NoDigest,
     sha1 |-> NoDigest, md5 |-> NoDigest]
NoConversion ==
    [called |-> FALSE, thrown |-> <<>>, outcome |-> "-", fields |-> {},
     detected_type |-> "-", mimetype |-> "-", error |-> "-",
     metadata |-> NoMetadata]
NoRet == [called |-> FALSE, raised |-> "-", value |-> <<>>]
LibIdle ==
    /\ calls = 0
    /\ call = NoCall
    /\ registry = CONVERTER_REGISTRY
    /\ lookup = NoLookup
    /\ detection = NoDetection
    /\ conversion = NoConversion
    /\ ret = NoRet

\* ------------------------------------------------------------------- Init
\* The listings of a directory: up to n files, no two with the same name.
Listings(S, n) ==
    {l \in UNION {[1..k -> S] : k \in 0..n} :
       \A i, j \in DOMAIN l : i # j => l[i] # l[j]}

Init ==
    /\ inputKind \in PathKinds
    /\ files_to_process \in
         CASE inputKind = "file" -> [1..1 -> FileDescs]
           [] inputKind = "dir" -> Listings(FileDescs, MaxFiles)
           [] OTHER -> {<<>>}
    /\ overwrite \in BOOLEAN
    /\ formats_filter \in FilterChoices
    /\ workers \in 1..MaxWorkers
    /\ workersArg = <<workers>>
    /\ cpu_count = <<1>>
    /\ outputs0 \in [Stems -> {Absent, Old}]
    /\ pc = "main"
    /\ submitted = 0
    /\ collected = {}
    /\ converted_files = <<>>
    /\ failed_files = <<>>
    /\ counts = NoCounts
    /\ raised = "-"
    /\ master = NoMaster
    /\ exitCode = NotExited
    /\ fut = [f \in FileIds |-> "unsubmitted"]
    /\ futResult = [f \in FileIds |-> "pending"]
    /\ outputs = outputs0
    /\ trace = [f \in FileIds |-> NoTrace]
    /\ arcKind = "zip"
    /\ arcEntries = <<>>
    /\ arcBudget = 0
    /\ stack = <<>>
    /\ scratch = {}
    /\ arcResult = "-"
    /\ arcListing = <<>>
    /\ LibIdle

\* ------------------------------------------------------- main(), cli.py
\* cli.py 116-120: a path that does not exist ends main with 1 before a
\* FileProcessor is built; otherwise main goes on to processor.process.
MainValidate ==
    /\ pc = "main"
    /\ IF inputKind = "missing"
         THEN /\ pc' = "exited"
              /\ exitCode' = <<ExitFailure>>
         ELSE /\ pc' = "process"
              /\ UNCHANGED exitCode
    /\ UNCHANGED <<fixedVars, poolVars, submitted, collected, converted_files,
                   failed_files, counts, raised, master>>

\* ------------------------------------------- FileProcessor.process 62-76
\* is_file / is_dir / else raise ValueError; an empty file set returns 0/0.
\* The ValueError leaves process and is caught by main's `except Exception`
\* (cli.py 161-163), which returns 1.
\* Mutant of IsFileOrDir: whatever exists and is no file is traversed.
IsFileOrAnythingElse == TRUE
IsFileOrDir == inputKind \in {"file", "dir"}

\* 79: ThreadPoolExecutor(max_workers=n) raises ValueError unless n > 0; the
\* error leaves process like the one above.
ValidPoolSize(n) == n > 0

ProcessEnumerate ==
    /\ pc = "process"
    /\ IF ~IsFileOrDir
         THEN /\ raised' = "ValueError"
              /\ pc' = "exited"
              /\ exitCode' = <<ExitFailure>>
              /\ UNCHANGED counts
         ELSE IF NFiles = 0
           THEN /\ counts' = [successful |-> 0, failed |-> 0]
                /\ pc' = "returned"
                /\ UNCHANGED <<raised, exitCode>>
           ELSE IF ~ValidPoolSize(workers)
           THEN /\ raised' = "ValueError"
                /\ pc' = "exited"
                /\ exitCode' = <<ExitFailure>>
                /\ UNCHANGED counts
           ELSE /\ pc' = "submit"
                /\ UNCHANGED <<raised, exitCode, counts>>
    /\ UNCHANGED <<fixedVars, poolVars, submitted, collected, converted_files,
                   failed_files, master>>

\* process 80-83: the dict comprehension submits one future per file, in the
\* order of files_to_process; workers may already run while it goes on.
Submit ==
    /\ pc = "submit"
    /\ submitted < NFiles
    /\ submitted' = submitted + 1
    /\ fut' = [fut EXCEPT ![submitted + 1] = "queued"]
    /\ pc' = IF submitted + 1 = NFiles THEN "collect" ELSE "submit"
    /\ UNCHANGED <<fixedVars, collected, converted_files, failed_files, counts,
                   raised, master, exitCode, futResult, outputs, trace>>

\* ---------------------------------------- the pool: ThreadPoolExecutor
\* A pool thread takes the oldest queued work item (the work queue is FIFO)
\* when fewer than max_workers threads hold one.
\* A pool without a bound.
PoolAlwaysHasFreeThread == TRUE
InFlight == {f \in FileIds : fut[f] \in {"converted", "writing"}}
Queued == {f \in FileIds : fut[f] = "queued"}
PoolHasFreeThread == Cardinality(InFlight) < workers
Startable(f) ==
    /\ fut[f] = "queued"
    /\ \A g \in Queued : f <= g
    /\ PoolHasFreeThread

\* ------------------------------ FileProcessor._process_single_file 113-158
\* Mutant of Excluded: `in` for `not in`.
ExcludedInverted(tag) == formats_filter # {} /\ tag \in formats_filter
\* 118: the formats filter excludes the detected tag.
Excluded(tag) == formats_filter # {} /\ tag \notin formats_filter

\* The worker handing back a result for a file whose processing raised.
ResultOnRaiseTruthy == "value"

\* 156-158: `except Exception` logs and returns None: the future of a file
\* whose processing raised completes normally, holding None.
ResultOnRaise == "None"

ErrorText(fault) == fault \o "_error"

Failed(f, fault) ==
    /\ fut' = [fut EXCEPT ![f] = "done"]
    /\ futResult' = [futResult EXCEPT ![f] = ResultOnRaise]

\* A pool thread takes work item f and runs 115-138: detect, filter, resolve
\* and construct the handler, convert.  Nothing shared is read or written
\* there, so it is one step.
WorkerConvert(f) ==
    /\ Startable(f)
    /\ \E fault \in ConvertFaults :
         LET tag == files_to_process[f].tag IN
         IF fault = "detect"
           THEN /\ Failed(f, fault)
                /\ trace' = [trace EXCEPT ![f].outcome = "failed",
                                          ![f].error = ErrorText(fault),
                                          ![f].runs = @ + 1]
         ELSE IF Excluded(tag)
           THEN /\ fut' = [fut EXCEPT ![f] = "done"]
                /\ futResult' = [futResult EXCEPT ![f] = "None"]
                /\ trace' = [trace EXCEPT ![f].outcome = "skip_filter",
                                          ![f].runs = @ + 1]
         ELSE IF fault = "construct"
           THEN /\ Failed(f, fault)
                /\ trace' = [trace EXCEPT ![f].outcome = "failed",
                                          ![f].error = ErrorText(fault),
                                          ![f].resolved = TRUE,
                                          ![f].runs = @ + 1]
         ELSE IF fault = "convert"
           THEN /\ Failed(f, fault)
                /\ trace' = [trace EXCEPT ![f].outcome = "failed",
                                          ![f].error = ErrorText(fault),
                                          ![f].resolved = TRUE,
                                          ![f].converts = @ + 1,
                                          ![f].runs = @ + 1]
         ELSE /\ fut' = [fut EXCEPT ![f] = "converted"]
              /\ UNCHANGED futResult
              /\ trace' = [trace EXCEPT ![f].resolved = TRUE,
                                        ![f].converts = @ + 1,
                                        ![f].runs = @ + 1]
    /\ UNCHANGED <<fixedVars, mainVars, outputs>>

\* An exists() that never sees the destination.
ExistsNever(stem) == FALSE
\* 141-147: output_path.exists() and not self.overwrite -> skip.
Exists(stem) == outputs[stem].kind # "absent"
\* Mutant of DestinationBlocks: the `not` is lost.
DestinationBlocksFlagInverted(stem) == Exists(stem) /\ overwrite
DestinationBlocks(stem) == Exists(stem) /\ ~overwrite

WorkerCheck(f) ==
    /\ fut[f] = "converted"
    /\ IF DestinationBlocks(files_to_process[f].stem)
         THEN /\ fut' = [fut EXCEPT ![f] = "done"]
              /\ futResult' = [futResult EXCEPT ![f] = "None"]
              /\ trace' = [trace EXCEPT ![f].outcome = "skip_exists"]
         ELSE /\ fut' = [fut EXCEPT ![f] = "writing"]
              /\ UNCHANGED <<futResult, trace>>
    /\ UNCHANGED <<fixedVars, mainVars, outputs>>

\* 150-154 and BaseConverter.save_json: open(output_path, 'w') creates or
\* truncates the destination, json.dump fills it.  A failing open leaves the
\* directory as it was; a failing dump leaves a truncated destination.
WorkerWrite(f) ==
    /\ fut[f] = "writing"
    /\ \E fault \in WriteFaults :
         LET stem == files_to_process[f].stem IN
         CASE fault = "none" ->
                /\ outputs' = [outputs EXCEPT ![stem] = Envelope(f)]
                /\ fut' = [fut EXCEPT ![f] = "done"]
                /\ futResult' = [futResult EXCEPT ![f] = "value"]
                /\ trace' = [trace EXCEPT ![f].outcome = "success",
                                          ![f].writes = @ + 1]
           [] fault = "open" ->
                /\ Failed(f, fault)
                /\ UNCHANGED outputs
                /\ trace' = [trace EXCEPT ![f].outcome = "failed",
                                          ![f].error = ErrorText(fault)]
           [] fault = "dump" ->
                /\ Failed(f, fault)
                /\ outputs' = [outputs EXCEPT ![stem] = Partial(f)]
                /\ trace' = [trace EXCEPT ![f].outcome = "failed",
                                          ![f].error = ErrorText(fault)]
    /\ UNCHANGED <<fixedVars, mainVars>>

\* ------------------------------------------- FileProcessor.process 85-101
\* as_completed yields each finished future once; a truthy result is
\* appended to converted_files, an exception of the future to failed_files.
Collect(f) ==
    /\ pc = "collect"
    /\ fut[f] = "done"
    /\ f \notin collected
    /\ collected' = collected \cup {f}
    /\ CASE futResult[f] = "value" ->
              /\ converted_files' = Append(converted_files, Envelope(f))
              /\ UNCHANGED failed_files
         [] futResult[f] = "exception" ->
              /\ failed_files' = Append(failed_files,
                                   [file |-> f, error |-> trace[f].error])
              /\ UNCHANGED converted_files
         [] OTHER -> UNCHANGED <<converted_files, failed_files>>
    /\ UNCHANGED <<fixedVars, poolVars, pc, submitted, counts, raised, master,
                   exitCode>>

\* Mutants of LoopExhausted: the loop is left at the first future that holds
\* no result; the loop is left after the first future.
LoopStopsAtNone ==
    collected = FileIds \/ \E f \in collected : futResult[f] = "None"
LoopStopsAtFirst == collected # {}

\* 85, 97-101: the loop ends when as_completed has yielded every future; the
\* executor's __exit__ then joins the pool and process returns the counts.
LoopExhausted == collected = FileIds

ProcessReturn ==
    /\ pc = "collect"
    /\ LoopExhausted
    /\ counts' = [successful |-> Len(converted_files),
                  failed |-> Len(failed_files)]
    /\ pc' = "returned"
    /\ UNCHANGED <<fixedVars, poolVars, submitted, collected, converted_files,
                   failed_files, raised, master, exitCode>>

\* ------------------------------- FileProcessor.create_master_json 167-176
MasterDoc ==
    [written |-> TRUE,
     total_files |-> Len(converted_files),
     converted_files |-> converted_files,
     has_failed_files |-> failed_files # <<>>,
     failed_files |-> failed_files]

\* cli.py 156: the status main returns after process.
ExitStatus(c) == IF c.failed = 0 THEN ExitOk ELSE ExitFailure

\* cli.py 145-156 (and 161-163 when writing master.json raises); combine is
\* args.combine.
MainFinish ==
    /\ pc = "returned"
    /\ pc' = "exited"
    /\ \E combine \in BOOLEAN, ok \in BOOLEAN :
         IF combine /\ ok
           THEN /\ master' = MasterDoc
                /\ exitCode' = <<ExitStatus(counts)>>
                /\ UNCHANGED raised
         ELSE IF combine
           THEN /\ UNCHANGED master
                /\ raised' = "OSError"
                /\ exitCode' = <<ExitFailure>>
         ELSE /\ UNCHANGED <<master, raised>>
              /\ exitCode' = <<ExitStatus(counts)>>
    /\ UNCHANGED <<fixedVars, poolVars, submitted, collected, converted_files,
                   failed_files, counts>>

\* ------------------------------------------------ KeyboardInterrupt
\* cli.py 158-160.  An interrupt reaches the main thread inside process; the
\* `with ThreadPoolExecutor` block is left through __exit__, which is
\* shutdown(wait=True): every submitted work item still runs to its end, then
\* the interrupt reaches main, which returns 130.
Interrupt ==
    /\ pc \in {"submit", "collect"}
    /\ pc' = "unwinding"
    /\ raised' = "KeyboardInterrupt"
    \* noted for each file: no pool thread had taken it when the interrupt came
    /\ trace' = [f \in FileIds |->
                   [trace[f] EXCEPT
                       !.waiting = fut[f] \in {"unsubmitted", "queued"}]]
    /\ UNCHANGED <<fixedVars, fut, futResult, outputs, submitted, collected,
                   converted_files, failed_files, counts, master, exitCode>>

ExitInterrupt ==
    /\ pc = "unwinding"
    /\ \A f \in FileIds : fut[f] \in {"unsubmitted", "done"}
    /\ pc' = "exited"
    /\ exitCode' = <<ExitInterrupted>>
    /\ UNCHANGED <<fixedVars, poolVars, submitted, collected, converted_files,
                   failed_files, counts, raised, master>>

Next ==
    \/ MainValidate
    \/ ProcessEnumerate
    \/ Submit
    \/ \E f \in FileIds : WorkerConvert(f)
    \/ \E f \in FileIds : WorkerCheck(f)
    \/ \E f \in FileIds : WorkerWrite(f)
    \/ \E f \in FileIds : Collect(f)
    \/ ProcessReturn
    \/ MainFinish

Spec == Init /\ [][Next]_vars

\* The same run, with a user interrupt possible while process is under way.
NextInterruptible ==
    \/ Next
    \/ Interrupt
    \/ ExitInterrupt

SpecInterruptible == Init /\ [][NextInterruptible]_vars

\* =============================================== ArchiveConverter.convert
\* What an entry holds, as detection sees the extracted bytes ("dir": the
\* entry is a directory).
EntryTypes == {"dir", "binary", "json", "zip", "tar"}
ArchiveTags == {"zip", "tar"}
\* ArchiveConverter.__init__: recursion_depth defaults to 3, and
\* _process_single_file sets 3 on the top-level handler.
DefaultRecursionDepth == 3

\* The entries of the archive at nesting level `level` (0: the top-level
\* archive).  A nested archive holds a JSON file and, down to MaxNest levels,
\* one more archive of its own kind.
ContentAt(level, kind) ==
    IF level = 0 THEN arcEntries
    ELSE IF level < MaxNest THEN <<"json", kind>>
    ELSE <<"json">>

ExtractFaults == {"none", "read", "mktemp", "write"}
NestedFaults == {"none", "detect", "construct", "convert"}

Frame(level, kind, budget) ==
    [level |-> level, kind |-> kind, budget |-> budget, idx |-> 1,
     files |-> <<>>, phase |-> "open"]

\* 60-65 / 125-131: the entry's file_obj; converted_content is absent until
\* line 93 / 158 attaches it.  `note` is what was logged for the entry.
FileObj(pos, type, converted, note) ==
    [pos |-> pos, is_directory |-> type = "dir",
     converted_content |-> converted, note |-> note]

\* Mutant of Appended: the append sits inside the try block, after the
\* conversion, so an entry that failed is not listed.
AppendedInsideTry(files, obj) ==
    IF obj.note \in {"extract_failed", "detect_failed", "convert_failed"}
      THEN files ELSE Append(files, obj)
\* 102 / 167: files.append(file_obj) follows the try block, so it is reached
\* on every path through the entry.
Appended(files, obj) == Append(files, obj)

\* Mutant of OwnBudget: the budget is a field shared with the nested
\* handlers, so each handler built for an entry takes one from the parent.
OwnBudgetShared(budget, obj) ==
    IF obj.note \in {"converted", "convert_failed"} THEN budget - 1 ELSE budget
\* 68-102 / 134-167: nothing in the loop assigns self.recursion_depth; the
\* decrement of 89-90 / 154-155 is stored on converter_instance.
OwnBudget(budget, obj) == budget

EntryDone(fr, obj) ==
    [fr EXCEPT !.files = Appended(fr.files, obj), !.idx = fr.idx + 1,
               !.phase = "next", !.budget = OwnBudget(fr.budget, obj)]

Top == stack[Len(stack)]
Below == SubSeq(stack, 1, Len(stack) - 1)
ReplaceTop(fr) == [stack EXCEPT ![Len(stack)] = fr]

ArchiveInit ==
    /\ arcKind \in ArchiveTags
    /\ arcEntries \in UNION {[1..k -> EntryTypes] : k \in 0..MaxEntries}
    /\ arcBudget \in 0..DefaultRecursionDepth
    /\ stack = <<Frame(0, arcKind, arcBudget)>>
    /\ scratch = {}
    /\ arcResult = "-"
    /\ arcListing = <<>>
    /\ inputKind = "missing"
    /\ files_to_process = <<>>
    /\ overwrite = FALSE
    /\ formats_filter = {}
    /\ workers = 1
    /\ workersArg = <<1>>
    /\ cpu_count = <<1>>
    /\ outputs0 = [s \in Stems |-> Absent]
    /\ pc = "idle"
    /\ submitted = 0
    /\ collected = {}
    /\ converted_files = <<>>
    /\ failed_files = <<>>
    /\ counts = NoCounts
    /\ raised = "-"
    /\ master = NoMaster
    /\ exitCode = NotExited
    /\ LibIdle
    /\ fut = <<>>
    /\ futResult = <<>>
    /\ outputs = outputs0
    /\ trace = <<>>

\* An archive that cannot be read makes its convert raise (104-106 /
\* 169-171): out of the top-level call, or into the parent's
\* `except Exception` (94-97 / 159-162), which logs, unlinks the scratch
\* file in `finally` and goes on to append the entry.
OpenFails ==
    IF Len(stack) = 1
      THEN /\ stack' = <<>>
           /\ arcResult' = "unreadable"
           /\ UNCHANGED <<scratch, arcListing>>
      ELSE LET parent == stack[Len(stack) - 1]
               type == ContentAt(parent.level, parent.kind)[parent.idx]
           IN /\ stack' = [Below EXCEPT ![Len(stack) - 1] =
                             EntryDone(parent, FileObj(parent.idx, type, FALSE,
                                                       "convert_failed"))]
              /\ scratch' = scratch \ {<<parent.level, parent.idx>>}
              /\ UNCHANGED <<arcResult, arcListing>>

\* 54-55 / 119-122 (and BaseConverter.convert 42-52 before them): opening the
\* archive and reading its directory; an unreadable archive raises (104-106).
ArcOpen ==
    /\ stack # <<>>
    /\ Top.phase = "open"
    /\ \E readable \in BOOLEAN :
         IF readable
           THEN /\ stack' = ReplaceTop([Top EXCEPT !.phase = "next"])
                /\ UNCHANGED <<scratch, arcResult, arcListing>>
           ELSE OpenFails
    /\ UNCHANGED <<arcKind, arcEntries, arcBudget, orchVars>>

\* 75-77 / 138-142: NamedTemporaryFile(delete=False).  In _extract_zip the
\* entry is read before the scratch file is created; in _extract_tar it is
\* read inside the `with` block that created it.  A failure inside the block
\* closes the scratch file and leaves it behind.
ScratchSurvives(kind, fault) ==
    \/ fault = "write"
    \/ kind = "tar" /\ fault = "read"

\* Mutant of BudgetLeft: `>= 0` for `> 0`.
BudgetLeftOffByOne(budget) == budget >= 0
\* 68 / 134: self.recursion_depth > 0.
BudgetLeft(budget) == budget > 0

\* Mutant of NestedBudget: the nested handler keeps the default it was built
\* with instead of the parent's budget minus one.
NestedBudgetDefault(budget) == DefaultRecursionDepth
\* 89-90 / 154-155: converter_instance.recursion_depth = recursion_depth - 1.
NestedBudget(budget) == budget - 1

\* 57-77, 99-102 / 124-142, 164-167: the next entry, up to the scratch file.
ArcExtract ==
    /\ stack # <<>>
    /\ Top.phase = "next"
    /\ Top.idx <= Len(ContentAt(Top.level, Top.kind))
    /\ LET type == ContentAt(Top.level, Top.kind)[Top.idx]
           here == <<Top.level, Top.idx>>
       IN IF type = "dir" \/ ~BudgetLeft(Top.budget)
            THEN /\ stack' = ReplaceTop(EntryDone(Top,
                                FileObj(Top.idx, type, FALSE, "listed")))
                 /\ UNCHANGED scratch
            ELSE \E fault \in ExtractFaults :
                   IF fault = "none"
                     THEN /\ stack' = ReplaceTop([Top EXCEPT !.phase = "extracted"])
                          /\ scratch' = scratch \cup {here}
                     ELSE /\ stack' = ReplaceTop(EntryDone(Top,
                                         FileObj(Top.idx, type, FALSE,
                                                 "extract_failed")))
                          /\ scratch' = IF ScratchSurvives(Top.kind, fault)
                                          THEN scratch \cup {here}
                                          ELSE scratch
    /\ UNCHANGED <<arcKind, arcEntries, arcBudget, arcResult, arcListing, orchVars>>

\* 79-97 / 144-162: detect the scratch file; a non-binary tag gets a handler
\* from the registry with recursion_depth - 1 and a full convert; the scratch
\* file is unlinked in `finally`.
ArcConvert ==
    /\ stack # <<>>
    /\ Top.phase = "extracted"
    /\ LET type == ContentAt(Top.level, Top.kind)[Top.idx]
           here == <<Top.level, Top.idx>>
           done(conv, note) ==
               /\ stack' = ReplaceTop(EntryDone(Top,
                              FileObj(Top.idx, type, conv, note)))
               /\ scratch' = scratch \ {here}
       IN \E fault \in NestedFaults :
            IF fault = "detect" THEN done(FALSE, "detect_failed")
            ELSE IF type = "binary" THEN done(FALSE, "binary")
            ELSE IF fault # "none" THEN done(FALSE, "convert_failed")
            ELSE IF type \in ArchiveTags
              THEN /\ stack' = Append(ReplaceTop([Top EXCEPT !.phase = "nested"]),
                                      Frame(Top.level + 1, type, NestedBudget(Top.budget)))
                   /\ UNCHANGED scratch
            ELSE done(TRUE, "converted")
    /\ UNCHANGED <<arcKind, arcEntries, arcBudget, arcResult, arcListing, orchVars>>

\* 108-112 / 173-177: the listing is returned; a nested call's data becomes
\* the parent entry's converted_content (92-93 / 157-158), then `finally`
\* unlinks the scratch file and the entry is appended.
ArcReturn ==
    /\ stack # <<>>
    /\ Top.phase = "next"
    /\ Top.idx > Len(ContentAt(Top.level, Top.kind))
    /\ IF Len(stack) = 1
         THEN /\ stack' = <<>>
              /\ arcResult' = "returned"
              /\ arcListing' = Top.files
              /\ UNCHANGED scratch
         ELSE LET parent == stack[Len(stack) - 1]
                  type == ContentAt(parent.level, parent.kind)[parent.idx]
              IN /\ stack' = [Below EXCEPT ![Len(stack) - 1] =
                                EntryDone(parent, FileObj(parent.idx, type, TRUE,
                                                          "converted"))]
                 /\ scratch' = scratch \ {<<parent.level, parent.idx>>}
                 /\ UNCHANGED <<arcResult, arcListing>>
    /\ UNCHANGED <<arcKind, arcEntries, arcBudget, orchVars>>

ArchiveNext ==
    \/ ArcOpen
    \/ ArcExtract
    \/ ArcConvert
    \/ ArcReturn

ArchiveSpec == ArchiveInit /\ [][ArchiveNext]_vars

\* The conversion runs synchronously on one thread (no cross-entry
\* parallelism): whenever a step is possible, one is taken.
\* processor.py 130-131: the orchestrator gives a top-level archive handler
\* the budget 3.
OrchestratedArchiveInit == ArchiveInit /\ arcBudget = DefaultRecursionDepth
ArchiveSpecFair ==
    OrchestratedArchiveInit /\ [][ArchiveNext]_vars /\ WF_vars(ArchiveNext)

\* ===================================================== claims, orchestrator
Returned == counts # NoCounts
FailedFiles == {f \in FileIds : trace[f].outcome = "failed"}
SkippedFiles == {f \in FileIds : trace[f].outcome \in {"skip_filter", "skip_exists"}}
InConverted(f) == \E i \in DOMAIN converted_files : converted_files[i].of = f
FailureRecords(f) == {i \in DOMAIN failed_files : failed_files[i].file = f}
StemOf(f) == files_to_process[f].stem
TagOf(f) == files_to_process[f].tag
FilteredOut(f) == formats_filter # {} /\ TagOf(f) \notin formats_filter

\* C1: when process returns, successful + failed = N - S, S the number of
\* files skipped by the formats filter or by an existing output with
\* overwrite off; a file whose conversion raised is counted in failed.
C1_CountsCoverEveryFile ==
    Returned =>
        /\ counts.successful + counts.failed = NFiles - Cardinality(SkippedFiles)
        /\ counts.failed = Cardinality(FailedFiles)

\* C2: when process returns, every file whose detection, handler construction,
\* convert or JSON write raised has exactly one record {file, error} in
\* failed_files, carrying the exception text.
C2_FailureRecorded ==
    Returned =>
        \A f \in FailedFiles :
            /\ Cardinality(FailureRecords(f)) = 1
            /\ \A i \in FailureRecords(f) : failed_files[i].error = trace[f].error

\* The outcome a file that does not fail has in a run without the failing
\* files: decided by the filter, the overwrite flag, the directory at the
\* start, and the files that do not fail and share its destination.
Rivals(f) ==
    {g \in FileIds \ FailedFiles :
        g # f /\ StemOf(g) = StemOf(f) /\ ~FilteredOut(g)}
OutcomeAsWithoutFailures(f) ==
    /\ fut[f] = "done"
    /\ trace[f].runs = 1
    /\ IF FilteredOut(f) THEN trace[f].outcome = "skip_filter"
       ELSE IF overwrite THEN trace[f].outcome = "success"
       ELSE IF outputs0[StemOf(f)] # Absent THEN trace[f].outcome = "skip_exists"
       ELSE IF Rivals(f) = {} THEN trace[f].outcome = "success"
       ELSE trace[f].outcome \in {"success", "skip_exists"}
    /\ trace[f].outcome = "success" => trace[f].writes = 1 /\ InConverted(f)
    /\ trace[f].outcome # "success" => trace[f].writes = 0 /\ ~InConverted(f)

\* C3 as stated: whatever files fail, process does not raise and every other
\* file has the outcome it has in a run without the failing files.
C3_IsolationAsStated ==
    /\ pc = "returned" => raised = "-"
    /\ Returned /\ NFiles > 0 =>
         \A f \in FileIds \ FailedFiles : OutcomeAsWithoutFailures(f)

\* C3 amended: the same, for every other file whose destination was not
\* created by the interrupted JSON write of a failing file.
TruncatedBy == {g \in FailedFiles : trace[g].error = "dump_error"}
C3_Isolation ==
    /\ pc = "returned" => raised = "-"
    /\ Returned /\ NFiles > 0 =>
         \A f \in FileIds \ FailedFiles :
            (\A g \in TruncatedBy : StemOf(g) # StemOf(f))
               => OutcomeAsWithoutFailures(f)

C3_Witness ==
    /\ pc = "returned"
    /\ \E f, g \in FileIds :
         /\ trace[f].outcome = "failed"
         /\ trace[g].outcome = "success"
         /\ StemOf(f) = StemOf(g)

\* C4: when process returns its counts, one unit of work was submitted per
\* discovered file, each file was processed exactly once, and no worker is
\* still processing.
C4_AllFinishedAtReturn ==
    /\ \A f \in FileIds : trace[f].runs <= 1
    /\ Returned =>
         /\ submitted = NFiles
         /\ InFlight = {} /\ Queued = {}
         /\ \A f \in FileIds : fut[f] = "done" /\ trace[f].runs = 1

C4_Witness ==
    /\ pc = "returned"
    /\ NFiles >= 2
    /\ \A f \in FileIds : fut[f] = "done" /\ trace[f].runs = 1

\* C5: with overwrite off, a file whose destination exists when the run starts
\* is skipped: the destination keeps its content, nothing is written for the
\* file, and the file is in neither converted_files nor failed_files.
C5_ExistingDestinationKept ==
    ~overwrite =>
        \A f \in FileIds :
            outputs0[StemOf(f)] = Old =>
                /\ outputs[StemOf(f)] = Old
                /\ trace[f].writes = 0
                /\ trace[f].outcome \in {"-", "skip_exists", "skip_filter", "failed"}
                /\ ~InConverted(f)
                /\ FailureRecords(f) = {}
                /\ (fut[f] = "done" /\ ~FilteredOut(f) /\ f \notin FailedFiles)
                       => trace[f].outcome = "skip_exists"

C5_Witness ==
    /\ pc = "returned"
    /\ ~overwrite
    /\ \E f \in FileIds :
         /\ outputs0[StemOf(f)] = Old
         /\ trace[f].outcome = "skip_exists"
         /\ trace[f].converts = 1

\* C6: a file whose detected tag a non-empty formats filter excludes is
\* skipped before a handler is resolved: no convert, no output, in neither
\* collection; a file whose tag is in the filter is never skipped by it.
C6_FilterSkips ==
    \A f \in FileIds :
        /\ FilteredOut(f) =>
              /\ ~trace[f].resolved
              /\ trace[f].converts = 0
              /\ trace[f].writes = 0
              /\ outputs[StemOf(f)].of # f
              /\ ~InConverted(f)
              /\ FailureRecords(f) = {}
              /\ (fut[f] = "done" /\ f \notin FailedFiles)
                    => trace[f].outcome = "skip_filter"
        /\ ~FilteredOut(f) => trace[f].outcome # "skip_filter"

C6_Witness ==
    /\ pc = "returned"
    /\ \E f, g \in FileIds :
         /\ trace[f].outcome = "skip_filter"
         /\ trace[g].outcome = "success"
         /\ InConverted(g)

\* C7: master.json mirrors the run: total_files is the number of entries of
\* converted_files and the successful count returned, and the failed_files
\* key is present exactly when at least one file of the run failed.
C7_MasterMirrorsRun ==
    master.written =>
        /\ master.total_files = Len(master.converted_files)
        /\ master.total_files = counts.successful
        /\ master.has_failed_files <=> (FailedFiles # {})

\* C8: main returns 0 only when every processed file succeeded, 1 when a
\* file's conversion failed, the input path does not exist or a fatal error
\* is raised, and 130 on a user interrupt.
C8_ExitCodes ==
    pc = "exited" =>
        /\ exitCode = <<ExitOk>> => FailedFiles = {}
        /\ (FailedFiles # {} /\ raised # "KeyboardInterrupt")
               => exitCode = <<ExitFailure>>
        /\ inputKind = "missing" => exitCode = <<ExitFailure>>
        /\ raised \in {"ValueError", "OSError"} => exitCode = <<ExitFailure>>
        /\ raised = "KeyboardInterrupt" => exitCode = <<ExitInterrupted>>

\* C9: an input path that is neither a regular file nor a directory makes
\* process raise the configuration error before anything is submitted: no
\* worker runs, nothing is written, both collections stay as they were, and
\* no counts are returned.
C9_InvalidPathAborts ==
    inputKind \notin {"file", "dir"} =>
        /\ submitted = 0
        /\ \A f \in FileIds : fut[f] = "unsubmitted"
        /\ outputs = outputs0
        /\ converted_files = <<>> /\ failed_files = <<>>
        /\ ~Returned
        /\ pc \in {"main", "process", "exited"}
        /\ (pc = "exited" /\ inputKind # "missing") => raised = "ValueError"

C9_Witness ==
    /\ inputKind = "other"
    /\ pc = "exited"
    /\ raised = "ValueError"
    /\ exitCode = <<ExitFailure>>

\* ======================================================== claims, archives
FailNotes == {"extract_failed", "detect_failed", "convert_failed"}
ListingSound(files, level, kind) ==
    \A i \in DOMAIN files :
        /\ files[i].pos = i
        /\ files[i].is_directory <=> (ContentAt(level, kind)[i] = "dir")
        /\ files[i].note \in FailNotes => ~files[i].converted_content
        /\ files[i].note = "converted" =>
              /\ files[i].converted_content
              /\ ContentAt(level, kind)[i] \notin {"dir", "binary"}
        /\ files[i].converted_content => files[i].note = "converted"

\* C10: whatever entries fail to extract or to convert, the conversion of a
\* readable ZIP or TAR archive does not raise, its listing holds every entry
\* exactly once, in order (file_count is the number of entries), a failing
\* entry is listed without converted_content, and a non-directory entry
\* whose nested conversion succeeded carries converted_content.  The same
\* holds of every nested archive's listing while it is being built.
C10_ListingSurvivesEntryFailures ==
    /\ arcResult \in {"-", "returned", "unreadable"}
    /\ arcResult = "returned" =>
          /\ Len(arcListing) = Len(arcEntries)
          /\ ListingSound(arcListing, 0, arcKind)
    /\ \A k \in DOMAIN stack :
          /\ Len(stack[k].files) = stack[k].idx - 1
          /\ ListingSound(stack[k].files, stack[k].level, stack[k].kind)

C10_Witness ==
    /\ arcResult = "returned"
    /\ \E i, j \in DOMAIN arcListing :
         /\ arcListing[i].note \in {"convert_failed", "extract_failed"}
         /\ arcListing[j].converted_content

C12_ExhaustedBudget ==
    /\ \A k \in DOMAIN stack :
          stack[k].budget = 0 =>
              /\ k = Len(stack)
              /\ stack[k].phase \in {"open", "next"}
              /\ Len(stack[k].files) = stack[k].idx - 1
              /\ \A i \in DOMAIN stack[k].files :
                    /\ ~stack[k].files[i].converted_content
                    /\ stack[k].files[i].pos = i
              /\ \A s \in scratch : s[1] # stack[k].level
    /\ (arcResult = "returned" /\ arcBudget = 0) =>
          /\ Len(arcListing) = Len(arcEntries)
          /\ \A i \in DOMAIN arcListing :
                ~arcListing[i].converted_content /\ arcListing[i].pos = i
          /\ scratch = {}

C12_Witness ==
    /\ arcResult = "returned"
    /\ arcBudget = 0
    /\ Len(arcListing) = 2
    /\ \E i, j \in DOMAIN arcEntries :
         arcEntries[i] = "json" /\ arcEntries[j] \in ArchiveTags

C13_BudgetChain ==
    /\ Len(stack) <= DefaultRecursionDepth + 1
    /\ Len(stack) <= arcBudget + 1
    /\ \A k \in DOMAIN stack :
          /\ stack[k].budget >= 0
          /\ stack[k].level = k - 1
          /\ k = 1 => stack[k].budget = arcBudget
          /\ k > 1 => stack[k].budget = stack[k - 1].budget - 1

\* C13: every nested archive handler has its parent's budget minus one, no
\* budget is negative, at most budget + 1 (at most 4) convert calls are
\* nested in one another, and the top-level conversion ends.
C13_BoundedAndTerminates ==
    /\ [](C13_BudgetChain)
    /\ <>(stack = <<>> /\ arcResult # "-")

C13_Witness ==
    /\ Len(stack) = DefaultRecursionDepth + 1
    /\ Top.budget = 0
    /\ Top.phase = "next"
    /\ Top.idx > 1

\* C26: processing an entry never changes the budget of a handler that is
\* on the call stack, and every handler built for an entry starts with the
\* budget of the handler that built it minus one, whichever sibling it is and
\* whatever became of the earlier siblings.
C26_OwnBudgetUnchanged ==
    [][/\ \A k \in DOMAIN stack \cap DOMAIN stack' :
            stack'[k].budget = stack[k].budget
       /\ Len(stack') > Len(stack) =>
            stack'[Len(stack')].budget = stack[Len(stack)].budget - 1]_vars

\* The second sibling is converted by a nested archive handler after the
\* first sibling, itself an archive, was converted by its own handler.
C26_Witness ==
    /\ Len(stack) = 2
    /\ stack[1].idx = 2
    /\ Len(stack[1].files) = 1
    /\ arcEntries[1] \in ArchiveTags
    /\ stack[1].files[1].converted_content
    /\ stack[1].budget = arcBudget
    /\ stack[2].budget = arcBudget - 1
    /\ stack[2].phase = "next"

\* =========================================================== library calls
\* The three library functions called on their own. LibInit chooses the call
\* of the behaviour: the function, its arguments and the environment (which
\* detection libraries are installed, what they report, what the file system
\* does); the action of that function applies it.
restVars == <<cfgVars, mainVars, poolVars, arcVars, calls>>

\* ------------------------------------------------------ registry.py 39-49
\* The strings get_converter is called with: the closed set and some others.
OtherStrings == {"", "PDF", "exe", "text", "tar.gz"}
FileTypes == ClosedSet \cup OtherStrings
Handlers == {CONVERTER_REGISTRY[t] : t \in ClosedSet}

\* A subscript CONVERTER_REGISTRY[file_type] instead of .get with a default.
get_converter_subscript(file_type) ==
    IF file_type \in DOMAIN registry THEN registry[file_type] ELSE "KeyError"
\* registry.py 49: CONVERTER_REGISTRY.get(file_type, BinaryConverter)
get_converter(file_type) ==
    IF file_type \in DOMAIN registry
    THEN registry[file_type]
    ELSE "BinaryConverter"

GetConverter ==
    /\ call.op = "get_converter"
    /\ lookup' = [called |-> TRUE, returned |-> get_converter(call.file_type)]
    /\ UNCHANGED <<call, registry, detection, conversion, ret, restVars>>

\* -------------------------------------------------------- utils.py 14-107
\* utils.py 34-48
mime_to_type ==
    [m \in {"application/x-evtx", "application/vnd.tcpdump.pcap",
            "application/vnd.tcpdump.pcapng", "application/pdf",
            "application/vnd.openxmlformats-officedocument.wordprocessingml.document",
            "application/zip", "application/gzip", "application/x-tar",
            "text/csv", "application/json", "application/xml", "text/xml",
            "text/plain"} |->
        CASE m = "application/x-evtx" -> "evtx"
          [] m = "application/vnd.tcpdump.pcap" -> "pcap"
          [] m = "application/vnd.tcpdump.pcapng" -> "pcapng"
          [] m = "application/pdf" -> "pdf"
          [] m = "application/vnd.openxmlformats-officedocument.wordprocessingml.document" -> "docx"
          [] m = "application/zip" -> "zip"
          [] m = "application/gzip" -> "gzip"
          [] m = "application/x-tar" -> "tar"
          [] m = "text/csv" -> "csv"
          [] m = "application/json" -> "json"
          [] m \in {"application/xml", "text/xml"} -> "xml"
          [] m = "text/plain" -> "txt"]
\* utils.py 67-71, keyed by kind.extension (the code prepends the dot)
ext_to_type ==
    [e \in {"evtx", "pcap", "pcapng"} |-> e]
\* utils.py 82-97
extension_map ==
    [e \in {".evtx", ".pcap", ".pcapng", ".csv", ".json", ".xml", ".log",
            ".txt", ".pdf", ".docx", ".zip", ".tar", ".gz", ".tgz"} |->
        CASE e = ".evtx" -> "evtx"
          [] e = ".pcap" -> "pcap"
          [] e = ".pcapng" -> "pcapng"
          [] e = ".csv" -> "csv"
          [] e = ".json" -> "json"
          [] e = ".xml" -> "xml"
          [] e \in {".log", ".txt"} -> "txt"
          [] e = ".pdf" -> "pdf"
          [] e = ".docx" -> "docx"
          [] e = ".zip" -> "zip"
          [] e \in {".tar", ".tgz"} -> "tar"
          [] e = ".gz" -> "gzip"]

\* What Path.suffixes gives for the file names of the model, and
\* str.lower on one suffix (utils.py 24).
SuffixLists ==
    {<<>>, <<".csv">>, <<".CSV">>, <<".json">>, <<".xml">>, <<".txt">>,
     <<".log">>, <<".pdf">>, <<".docx">>, <<".zip">>, <<".tar">>, <<".gz">>,
     <<".tgz">>, <<".tar", ".gz">>, <<".TAR", ".GZ">>, <<".evtx">>,
     <<".pcap">>, <<".pcapng">>, <<".dat">>, <<".json", ".bak">>}
lower(e) ==
    CASE e = ".CSV" -> ".csv"
      [] e = ".TAR" -> ".tar"
      [] e = ".GZ" -> ".gz"
      [] OTHER -> e
\* pathlib: suffix is the last of suffixes, '' when there is none
suffix(suffixes) ==
    IF suffixes = <<>> THEN "" ELSE suffixes[Len(suffixes)]
\* utils.py 100: file_path.suffixes[-2:]
LastTwo(suffixes) ==
    IF Len(suffixes) <= 2
    THEN suffixes
    ELSE SubSeq(suffixes, Len(suffixes) - 1, Len(suffixes))

\* What a file holds, as far as detection can tell: well-formed CSV, JSON or
\* XML text, other plain text, or anything else.
Contents == {"csv", "json", "xml", "text", "other"}
UnmappedMimes == {"application/octet-stream", "inode/x-empty", "text/html"}
\* utils.py 29-30: the MIME string libmagic may report for such a file; which
\* one depends on the libmagic version and on how much text the file holds.
MagicReports(content) ==
    CASE content = "csv" -> {"text/csv", "text/plain"}
      [] content = "json" -> {"application/json", "text/plain"}
      [] content = "xml" -> {"text/xml", "text/plain"}
      [] content = "text" -> {"text/plain"}
      [] OTHER -> DOMAIN mime_to_type \cup UnmappedMimes
\* utils.py 28-30: python-magic is not installed, raises, or reports
MagicOutcomes(content) == {"ImportError", "Exception"} \cup MagicReports(content)
\* utils.py 61-63: kind.mime for the kinds of the model, by kind.extension
KindMime ==
    [k \in {"evtx", "pcap", "pcapng", "zip", "png"} |->
        CASE k = "evtx" -> "application/x-evtx"
          [] k = "pcap" -> "application/vnd.tcpdump.pcap"
          [] k = "pcapng" -> "application/x-pcapng"
          [] k = "zip" -> "application/zip"
          [] k = "png" -> "image/png"]
\* utils.py 60-62: filetype is not installed, raises, guesses nothing (all
\* it can do for text) or guesses a kind from the leading bytes
FiletypeOutcomes(content) ==
    {"ImportError", "Exception", "None"}
        \cup (IF content = "other" THEN DOMAIN KindMime ELSE {})

\* What one strategy of the cascade yields.
Miss == [kind |-> "miss", detected |-> "-", mimetype |-> "-", error |-> "-"]
Hit(detected, mimetype) ==
    [kind |-> "hit", detected |-> detected, mimetype |-> mimetype,
     error |-> "-"]
Raise(e) == [kind |-> "raise", detected |-> "-", mimetype |-> "-", error |-> e]

\* A detection library's error leaving detect_file_type.
LibraryErrorPropagates(e) == Raise(e)
\* utils.py 53-56 and 76-79: ImportError and every other Exception of a
\* detection library are logged and the function goes on.
LibraryError(e) == Miss

\* utils.py 27-56
MagicStrategy(m) ==
    CASE m \in {"ImportError", "Exception"} -> LibraryError(m)
      [] m \in DOMAIN mime_to_type -> Hit(mime_to_type[m], m)
      [] OTHER -> Miss
\* utils.py 59-79
FiletypeStrategy(k) ==
    CASE k \in {"ImportError", "Exception"} -> LibraryError(k)
      [] k \in DOMAIN ext_to_type -> Hit(ext_to_type[k], KindMime[k])
      [] OTHER -> Miss
\* utils.py 99-105, the entries of the table
ExtensionStrategy(suffixes) ==
    CASE LastTwo(suffixes) = <<".tar", ".gz">> -> Hit("tar", "application/x-gzip")
      [] lower(suffix(suffixes)) \in DOMAIN extension_map ->
            Hit(extension_map[lower(suffix(suffixes))], "application/octet-stream")
      [] OTHER -> Miss
\* utils.py 104-105, the default of the .get
DefaultStrategy == Hit("binary", "application/octet-stream")

\* The extension table asked before the content.
CascadeExtensionFirst == <<"extension", "magic", "filetype", "default">>
\* utils.py 26-107: the order of the blocks of detect_file_type
Cascade == <<"magic", "filetype", "extension", "default">>

Strategy(name, suffixes, m, k) ==
    CASE name = "magic" -> MagicStrategy(m)
      [] name = "filetype" -> FiletypeStrategy(k)
      [] name = "extension" -> ExtensionStrategy(suffixes)
      [] OTHER -> DefaultStrategy

\* Each block returns on a match and falls through to the next otherwise.
RECURSIVE Resolve(_, _, _, _, _)
Resolve(i, suffixes, m, k, seen) ==
    LET r == Strategy(Cascade[i], suffixes, m, k)
        consulted == Append(seen, Cascade[i])
    IN  IF r.kind = "miss" /\ i < Len(Cascade)
        THEN Resolve(i + 1, suffixes, m, k, consulted)
        ELSE [detected |-> r.detected, mimetype |-> r.mimetype,
              raised |-> r.error, consulted |-> consulted]

detect_file_type(suffixes, m, k) == Resolve(1, suffixes, m, k, <<>>)

DetectFileType ==
    /\ call.op = "detect_file_type"
    /\ LET r == detect_file_type(call.suffixes, call.magic, call.filetype) IN
       detection' = [called |-> TRUE, consulted |-> r.consulted,
                     detected |-> r.detected, mimetype |-> r.mimetype,
                     raised |-> r.raised]
    /\ UNCHANGED <<call, registry, lookup, conversion, ret, restVars>>

\* ------------------------------------------------ base_converter.py 30-65
\* What the file handed to convert holds: well-formed JSON or XML, JSON and
\* XML with a syntax error, a long run of '[' never closed, other text, or
\* bytes that are not UTF-8.
ConvertContents ==
    {"json", "json_malformed", "json_unclosed_deep", "xml", "xml_malformed",
     "text", "undecodable"}
\* What detection can tell of such a file.
DetectionView(content) ==
    CASE content \in {"json", "xml", "text"} -> content
      [] content = "undecodable" -> "other"
      [] OTHER -> "text"
ConvertHandlers ==
    {"JsonConverter", "XmlConverter", "TextConverter", "BinaryConverter",
     "BaseConverter"}
ConvertSuffixLists == {<<>>, <<".json">>, <<".xml">>, <<".txt">>}
\* utils.py 152-153: stat of a file that is gone
MetaFaults == {"none", "FileNotFoundError"}
\* what opening or reading the file may raise inside a handler
DataFaults == {"none", "PermissionError", "MemoryError"}

Value == [ok |-> TRUE, exc |-> "-"]
Raises(e) == [ok |-> FALSE, exc |-> e]

\* A file of the model is a number of 4096-byte chunks; the three hash
\* objects are modelled by the number of chunks they were updated with.
\* hexdigest(): the digest of what the hash object was fed.
Hexdigest(alg, fed) == <<alg, fed>>
\* Where the read loop of calculate_hashes fails: <<>> nowhere, <<0>> on
\* open, <<n>> on the read after n chunks.
HashFaults(chunks) == {<<>>} \cup {<<n>> : n \in 0..chunks}
\* Modification times (seconds since the epoch).
Mtimes == 0..MaxMtime

\* Mutant of HashesOnError: the handler returns the digests of what was
\* hashed before the failure.
HashesOfPrefix(fed) ==
    [sha256 |-> Hexdigest("sha256", fed), sha1 |-> Hexdigest("sha1", fed),
     md5 |-> Hexdigest("md5", fed)]
\* utils.py 130-132: except Exception: log, return three empty strings.
HashesOnError(fed) == [sha256 |-> NoDigest, sha1 |-> NoDigest, md5 |-> NoDigest]

\* utils.py 110-138
calculate_hashes(chunks, hashFault) ==
    IF hashFault # <<>>
      THEN HashesOnError(hashFault[1])
      ELSE [sha256 |-> Hexdigest("sha256", chunks),
            sha1 |-> Hexdigest("sha1", chunks),
            md5 |-> Hexdigest("md5", chunks)]

\* utils.py 141-166: stat (which raises for a file that is gone), then the
\* hashes; mtime_iso is left None for convert to fill in.
extract_metadata(fault, chunks, mtime, hashFault) ==
    IF fault # "none"
      THEN [ok |-> FALSE, exc |-> fault, value |-> NoMetadata]
      ELSE LET h == calculate_hashes(chunks, hashFault)
           IN [ok |-> TRUE, exc |-> "-",
               value |-> [size |-> chunks, mtime |-> mtime, mtime_iso |-> None,
                          sha256 |-> h.sha256, sha1 |-> h.sha1, md5 |-> h.md5]]

\* datetime.fromtimestamp(t).isoformat()
isoformat(t) == <<"iso8601", t>>
\* base_converter.py 47-50: `if metadata.get("mtime")` is Python's truth of
\* the number, so 0 leaves mtime_iso as extract_metadata set it.
WithMtimeIso(md) ==
    IF md.mtime # 0 THEN [md EXCEPT !.mtime_iso = isoformat(md.mtime)] ELSE md

\* json_converter.py 26-27: open(..., encoding='utf-8') and json.load
json_load(content, fault) ==
    CASE fault # "none" -> Raises(fault)
      [] content = "undecodable" -> Raises("UnicodeDecodeError")
      [] content = "json_unclosed_deep" -> Raises("RecursionError")
      [] content = "json" -> Value
      [] OTHER -> Raises("JSONDecodeError")
\* xml_converter.py 27-29
ET_parse(content, fault) ==
    CASE fault # "none" -> Raises(fault)
      [] content = "xml" -> Value
      [] OTHER -> Raises("ParseError")

\* json_converter.py 28-30, xml_converter.py 30-32: raise ValueError(...)
InvalidInput(e) == "ValueError"

_extract_data(handler, content, fault) ==
    CASE handler = "JsonConverter" ->
            LET r == json_load(content, fault) IN
            IF r.exc = "JSONDecodeError" THEN Raises(InvalidInput(r.exc)) ELSE r
      [] handler = "XmlConverter" ->
            LET r == ET_parse(content, fault) IN
            IF r.exc = "ParseError" THEN Raises(InvalidInput(r.exc)) ELSE r
      [] handler = "BaseConverter" -> Raises("NotImplementedError")
      [] OTHER -> IF fault = "none" THEN Value ELSE Raises(fault)

\* Python's exception classes: the subclasses of ValueError met here.
IsValueError(e) == e \in {"ValueError", "UnicodeDecodeError", "JSONDecodeError"}

EnvelopeFields ==
    {"source_filename", "source_path", "detected_type", "mimetype",
     "converted_at", "metadata", "data"}

\* The exception replaced by one of convert's own.
ReraiseAsConversionError(e) == "ConversionError"
\* base_converter.py 63-65: log, then a bare raise
Reraise(e) == e

Escapes(stage, e) ==
    [called |-> TRUE, thrown |-> <<[stage |-> stage, exc |-> e]>>,
     outcome |-> "raise", fields |-> {}, detected_type |-> "-",
     mimetype |-> "-", error |-> Reraise(e), metadata |-> NoMetadata]

\* base_converter.py 30-65; `file` is what stat and the hashing read find:
\* [chunks, mtime, hashFault].
convert(handler, suffixes, content, m, k, metaFault, dataFault, file) ==
    LET det == detect_file_type(suffixes, m, k) IN
    IF det.raised # "-"
    THEN [called |-> TRUE, thrown |-> <<[stage |-> "detect", exc |-> det.raised]>>,
          outcome |-> "raise", fields |-> {}, detected_type |-> "-",
          mimetype |-> "-", error |-> det.raised, metadata |-> NoMetadata]
    ELSE
    LET metadata == extract_metadata(metaFault, file.chunks, file.mtime,
                                     file.hashFault) IN
    IF ~metadata.ok THEN Escapes("metadata", metadata.exc)
    ELSE
    LET data == _extract_data(handler, content, dataFault) IN
    IF ~data.ok THEN Escapes("extract_data", data.exc)
    ELSE [called |-> TRUE, thrown |-> <<>>, outcome |-> "envelope",
          fields |-> EnvelopeFields, detected_type |-> det.detected,
          mimetype |-> det.mimetype, error |-> "-",
          metadata |-> WithMtimeIso(metadata.value)]

Convert ==
    /\ call.op = "convert"
    /\ conversion' = convert(call.handler, call.suffixes, call.content,
                             call.magic, call.filetype, call.metaFault,
                             call.dataFault,
                             [chunks |-> call.chunks, mtime |-> call.mtime,
                              hashFault |-> call.hashFault])
    /\ UNCHANGED <<call, registry, lookup, detection, ret, restVars>>

\* utils.extract_metadata called on its own.
ExtractMetadata ==
    /\ call.op = "extract_metadata"
    /\ LET r == extract_metadata(call.metaFault, call.chunks, call.mtime,
                                 call.hashFault)
       IN ret' = [called |-> TRUE, raised |-> r.exc, value |-> r.value]
    /\ UNCHANGED <<call, registry, lookup, detection, conversion, restVars>>

\* ---- PdfConverter._extract_data and PcapConverter._extract_data
\* The two extraction strategies of a handler, in the order they are tried;
\* the names are the extraction_method values of the results.
Strategies(handler) ==
    IF handler = "PdfConverter" THEN <<"pdfminer.six", "PyPDF2">>
                                ELSE <<"pyshark", "scapy">>
\* How a strategy ends in the environment of the call: a result, its library
\* not installed, or an error while reading the file.
StrategyOutcomes == {"ok", "unavailable", "error"}
StrategyRaises(outcome) ==
    IF outcome = "unavailable" THEN "ImportError" ELSE "StrategyError"
\* pdf_converter.py 25-28: `except ImportError` alone.
\* pcap.py 30-36: `except ImportError` and `except Exception`.
FallsThrough(handler, exc) ==
    IF handler = "PdfConverter" THEN exc = "ImportError" ELSE TRUE
\* pdf_converter.py 17-37, pcap.py 17-46: the second strategy's ImportError
\* is replaced by an ImportError naming both libraries, any other error of
\* it propagates.
TwoStrategies(handler, first, second) ==
    LET names == Strategies(handler) IN
    IF first = "ok"
      THEN [raised |-> "-", method |-> names[1], tried |-> <<names[1]>>]
    ELSE IF ~FallsThrough(handler, StrategyRaises(first))
      THEN [raised |-> StrategyRaises(first), method |-> "-",
            tried |-> <<names[1]>>]
    ELSE IF second = "ok"
      THEN [raised |-> "-", method |-> names[2], tried |-> names]
    ELSE [raised |-> StrategyRaises(second), method |-> "-", tried |-> names]

ExtractData ==
    /\ call.op = "extract_data"
    /\ LET r == TwoStrategies(call.handler, call.first, call.second)
       IN ret' = [called |-> TRUE, raised |-> r.raised,
                  value |-> [extraction_method |-> r.method, tried |-> r.tried]]
    /\ UNCHANGED <<call, registry, lookup, detection, conversion, restVars>>

\* ---- TextConverter._extract_data
\* A line of a text file, by what the two patterns find in it.
IsoOutcomes == {"no_match", "parses", "unparsable"}
EpochOutcomes == {"no_match", "parses"}
LineKinds == [iso : IsoOutcomes, epoch : EpochOutcomes]
TextFiles(n) == UNION {[1..k -> LineKinds] : k \in 0..n}

\* text_converter.py 59-102; "-" is the None of a line without timestamp.
\* A match of the ISO pattern that fromisoformat rejects ends in
\* `except Exception: pass`, after which the epoch pattern is tried.
_extract_timestamp(line) ==
    IF line.iso = "parses" THEN "iso8601"
    ELSE IF line.epoch = "parses" THEN "epoch"
    ELSE "-"

\* text_converter.py 25-57: one line object per line, in order.
TextExtractData ==
    /\ call.op = "text_extract_data"
    /\ ret' = [called |-> TRUE, raised |-> "-",
               value |-> [i \in DOMAIN call.lines |->
                            [line_number |-> i,
                             timestamp_format |-> _extract_timestamp(call.lines[i])]]]
    /\ UNCHANGED <<call, registry, lookup, detection, conversion, restVars>>

\* ------------------------------------------------------------ LibSpec
LookupCall(t) == [NoCall EXCEPT !.op = "get_converter", !.file_type = t]
DetectCall(s, c, m, k) ==
    [NoCall EXCEPT !.op = "detect_file_type", !.suffixes = s, !.content = c,
                   !.magic = m, !.filetype = k]
ConvertCall(h, s, c, m, k, mf, df, t, hf) ==
    [NoCall EXCEPT !.op = "convert", !.handler = h, !.suffixes = s,
                   !.content = c, !.magic = m, !.filetype = k,
                   !.metaFault = mf, !.dataFault = df, !.chunks = 1,
                   !.mtime = t, !.hashFault = hf]
ExtractCall(h, a, b) ==
    [NoCall EXCEPT !.op = "extract_data", !.handler = h, !.first = a,
                   !.second = b]
TextCall(ls) == [NoCall EXCEPT !.op = "text_extract_data", !.lines = ls]
MetadataCall(mf, n, t, hf) ==
    [NoCall EXCEPT !.op = "extract_metadata", !.metaFault = mf, !.chunks = n,
                   !.mtime = t, !.hashFault = hf]
\* The call of the behaviour, with its arguments and its environment.
ChooseCall ==
    \/ \E t \in FileTypes : call = LookupCall(t)
    \/ \E c \in Contents, s \in SuffixLists :
          \E m \in MagicOutcomes(c), k \in FiletypeOutcomes(c) :
             call = DetectCall(s, c, m, k)
    \/ \E c \in ConvertContents, h \in ConvertHandlers,
          s \in ConvertSuffixLists, mf \in MetaFaults, df \in DataFaults :
          \E m \in MagicOutcomes(DetectionView(c)),
             k \in FiletypeOutcomes(DetectionView(c)),
             t \in Mtimes, hf \in {<<>>, <<0>>} :
             call = ConvertCall(h, s, c, m, k, mf, df, t, hf)
    \/ \E mf \in MetaFaults, n \in 0..MaxChunks, t \in Mtimes :
          \E hf \in HashFaults(n) : call = MetadataCall(mf, n, t, hf)
    \/ \E h \in {"PdfConverter", "PcapConverter"}, a, b \in StrategyOutcomes :
          call = ExtractCall(h, a, b)
    \/ \E ls \in TextFiles(MaxLines) : call = TextCall(ls)

LibInit ==
    /\ ChooseCall
    /\ calls = 0
    /\ registry = CONVERTER_REGISTRY
    /\ lookup = NoLookup
    /\ detection = NoDetection
    /\ conversion = NoConversion
    /\ ret = NoRet
    \* no run and no archive conversion under way
    /\ inputKind = "missing"
    /\ files_to_process = <<>>
    /\ overwrite = FALSE
    /\ formats_filter = {}
    /\ workers = 1
    /\ workersArg = <<1>>
    /\ cpu_count = <<1>>
    /\ outputs0 = [s \in Stems |-> Absent]
    /\ pc = "idle"
    /\ submitted = 0
    /\ collected = {}
    /\ converted_files = <<>>
    /\ failed_files = <<>>
    /\ counts = NoCounts
    /\ raised = "-"
    /\ master = NoMaster
    /\ exitCode = NotExited
    /\ fut = <<>>
    /\ futResult = <<>>
    /\ outputs = outputs0
    /\ trace = <<>>
    /\ arcKind = "zip"
    /\ arcEntries = <<>>
    /\ arcBudget = 0
    /\ stack = <<>>
    /\ scratch = {}
    /\ arcResult = "-"
    /\ arcListing = <<>>

LibNext ==
    \/ GetConverter
    \/ DetectFileType
    \/ Convert
    \/ ExtractMetadata
    \/ ExtractData
    \/ TextExtractData
LibSpec == LibInit /\ [][LibNext]_vars

\* ------------------------------------------------------- claims C14..C19
\* C14: get_converter is a total, stateless lookup: for a tag of the closed
\* set it returns the registered handler (pcap and pcapng the packet handler;
\* zip, tar and gzip the archive handler; binary the binary handler), for
\* every other string the binary handler; it never raises (what it returns
\* is always a handler class) and the registry stays as it was built.
C14_TotalStatelessLookup ==
    /\ registry = CONVERTER_REGISTRY
    /\ lookup.called =>
         /\ lookup.returned \in Handlers
         /\ call.file_type \in ClosedSet =>
                lookup.returned = CONVERTER_REGISTRY[call.file_type]
         /\ call.file_type \in {"pcap", "pcapng"} =>
                lookup.returned = "PcapConverter"
         /\ call.file_type \in {"zip", "tar", "gzip"} =>
                lookup.returned = "ArchiveConverter"
         /\ call.file_type = "binary" => lookup.returned = "BinaryConverter"
         /\ call.file_type \notin ClosedSet =>
                lookup.returned = "BinaryConverter"
C14_Witness ==
    /\ lookup.called
    /\ call.file_type = "PDF"
    /\ lookup.returned = "BinaryConverter"

MagicMatches == call.magic \in DOMAIN mime_to_type
FiletypeMatches == call.filetype \in {"evtx", "pcap", "pcapng"}
IsTarGz == LastTwo(call.suffixes) = <<".tar", ".gz">>
ExtensionMatches ==
    IsTarGz \/ lower(suffix(call.suffixes)) \in DOMAIN extension_map
\* C15: detect_file_type resolves the tag by the first strategy that yields
\* a match, in the order MIME table, secondary library (evtx, pcap, pcapng
\* only), extension table, default binary; a later strategy is consulted
\* only when every earlier one yielded no match, and the tag is in the
\* closed set.
C15_FirstMatchInOrder ==
    detection.called =>
        /\ detection.detected \in ClosedSet
        /\ MagicMatches =>
              /\ detection.detected = mime_to_type[call.magic]
              /\ detection.consulted = <<"magic">>
        /\ ~MagicMatches /\ FiletypeMatches =>
              /\ detection.detected = call.filetype
              /\ detection.consulted = <<"magic", "filetype">>
        /\ ~MagicMatches /\ ~FiletypeMatches /\ ExtensionMatches =>
              /\ detection.detected =
                    IF IsTarGz THEN "tar"
                    ELSE extension_map[lower(suffix(call.suffixes))]
              /\ detection.consulted = <<"magic", "filetype", "extension">>
        /\ ~MagicMatches /\ ~FiletypeMatches /\ ~ExtensionMatches =>
              /\ detection.detected = "binary"
              /\ detection.consulted =
                    <<"magic", "filetype", "extension", "default">>
C15_Witness ==
    /\ detection.called
    /\ call.magic \in UnmappedMimes
    /\ call.filetype = "png"
    /\ call.suffixes = <<".pdf">>
    /\ detection.detected = "pdf"
    /\ detection.consulted = <<"magic", "filetype", "extension">>

LibraryFailed(outcome) == outcome \in {"ImportError", "Exception"}
\* C16: detect_file_type never raises: a detection library that is not
\* installed or raises counts as a miss of its strategy and the next step is
\* tried, so the call returns the (tag, mimetype) pair it returns when that
\* library reports nothing that matches.
C16_DetectNeverRaises ==
    detection.called =>
        /\ detection.raised = "-"
        /\ detection.detected \in ClosedSet
        /\ detection.mimetype # "-"
        /\ LibraryFailed(call.magic) => Len(detection.consulted) >= 2
        /\ LibraryFailed(call.magic) /\ LibraryFailed(call.filetype) =>
              Len(detection.consulted) >= 3
        /\ LET quiet == detect_file_type(
                            call.suffixes,
                            IF LibraryFailed(call.magic)
                            THEN "application/octet-stream" ELSE call.magic,
                            IF LibraryFailed(call.filetype)
                            THEN "None" ELSE call.filetype)
           IN  /\ detection.detected = quiet.detected
               /\ detection.mimetype = quiet.mimetype
C16_Witness ==
    /\ detection.called
    /\ call.magic = "Exception"
    /\ call.filetype = "ImportError"
    /\ call.suffixes = <<".json">>
    /\ detection.detected = "json"
    /\ detection.raised = "-"

\* The file's suffix is .csv, .json, .xml, .txt or .log and it holds what
\* the suffix says.
WellFormedForSuffix ==
    \/ call.suffixes = <<".csv">> /\ call.content = "csv"
    \/ call.suffixes = <<".json">> /\ call.content = "json"
    \/ call.suffixes = <<".xml">> /\ call.content = "xml"
    \/ call.suffixes \in {<<".txt">>, <<".log">>} /\ call.content = "text"
\* C17: for a file with suffix .csv, .json, .xml, .txt or .log holding
\* well-formed content of that format, detect_file_type, and the
\* detected_type of the envelope convert returns, is the tag of the
\* extension table for the suffix, whatever detection libraries are
\* installed and whatever they report.
C17_ExtensionTagInEveryEnvironment ==
    /\ (detection.called /\ WellFormedForSuffix) =>
          detection.detected = extension_map[suffix(call.suffixes)]
    /\ (conversion.called /\ conversion.outcome = "envelope"
           /\ WellFormedForSuffix) =>
          conversion.detected_type = extension_map[suffix(call.suffixes)]

\* C18: BaseConverter.convert ends in one of two ways, for every handler
\* and file: it returns an envelope with all seven fields, or it raises the
\* very exception metadata extraction or _extract_data raised, with no
\* field of an envelope returned.
C18_EnvelopeOrSameException ==
    conversion.called =>
        \/ /\ conversion.outcome = "envelope"
           /\ conversion.fields = EnvelopeFields
           /\ conversion.error = "-"
           /\ conversion.thrown = <<>>
           /\ call.metaFault = "none"
        \/ /\ conversion.outcome = "raise"
           /\ conversion.fields = {}
           /\ Len(conversion.thrown) = 1
           /\ conversion.thrown[1].stage \in {"metadata", "extract_data"}
           /\ conversion.error = conversion.thrown[1].exc
           /\ call.metaFault # "none" => conversion.error = call.metaFault
C18_Witness ==
    /\ conversion.called
    /\ call.handler = "TextConverter"
    /\ conversion.outcome = "raise"
    /\ conversion.thrown[1].stage = "extract_data"
    /\ conversion.error = "PermissionError"

MalformedForHandler ==
    \/ /\ call.handler = "JsonConverter"
       /\ call.content \in {"json_malformed", "json_unclosed_deep"}
    \/ /\ call.handler = "XmlConverter"
       /\ call.content = "xml_malformed"
\* C19: converting a syntactically malformed JSON file with the JSON
\* handler, or a malformed XML file with the XML handler, the file being
\* there and readable, raises ValueError out of convert: no envelope, no
\* exception of another kind.
C19_MalformedRaisesValueError ==
    (/\ conversion.called
     /\ MalformedForHandler
     /\ call.metaFault = "none"
     /\ call.dataFault = "none") =>
        /\ conversion.outcome = "raise"
        /\ conversion.fields = {}
        /\ IsValueError(conversion.error)

\* ------------------------------------------------------------ claim C20
\* The output files that hold an envelope when the run is over.
WrittenOutputs == {s \in Stems : outputs[s].kind = "envelope"}
SharesStem(f) == \E g \in FileIds : g # f /\ StemOf(g) = StemOf(f)
\* C20 as stated: after a run every file counted as successful has its own
\* output file holding its envelope, and the number of successful results
\* is the number of output files written, same stems and overwrite included.
C20_OwnOutputPerSuccessAsStated ==
    Returned =>
        /\ \A f \in FileIds :
              InConverted(f) => outputs[StemOf(f)] = Envelope(f)
        /\ counts.successful = Cardinality(WrittenOutputs)
\* C20: after a run every file counted as successful whose stem no other
\* input file shares has its own output file holding its envelope; every
\* output file holding an envelope holds that of a file counted as
\* successful; there are at most as many of them as successful results, and
\* exactly as many when no two input files share a stem.
C20_OwnOutputPerSuccess ==
    Returned =>
        /\ \A f \in FileIds :
              (InConverted(f) /\ ~SharesStem(f)) =>
                  outputs[StemOf(f)] = Envelope(f)
        /\ \A s \in WrittenOutputs :
              InConverted(outputs[s].of) /\ StemOf(outputs[s].of) = s
        /\ Cardinality(WrittenOutputs) <= counts.successful
        /\ (\A f \in FileIds : ~SharesStem(f)) =>
              Cardinality(WrittenOutputs) = counts.successful
C20_Witness ==
    /\ Returned
    /\ overwrite
    /\ counts.successful = 2
    /\ \E f, g \in FileIds :
          /\ f # g
          /\ StemOf(f) = StemOf(g)
          /\ InConverted(f) /\ InConverted(g)
          /\ outputs[StemOf(f)] = Envelope(g)
    /\ Cardinality(WrittenOutputs) = 1

\* ================================================= the size of the pool
\* processor.py 46-47: self.workers = workers or os.cpu_count() or 1, with
\* Python's truth of None and 0.
Truthy(x) == x # <<>> /\ x[1] # 0
PlatformDefault(cpu) == IF Truthy(cpu) THEN cpu[1] ELSE 1
ResolveWorkers(arg, cpu) == IF Truthy(arg) THEN arg[1] ELSE PlatformDefault(cpu)

\* What a caller can pass for workers (--workers is any int, or absent), and
\* what os.cpu_count() can give (None or a positive number).
WorkerArgs == {<<>>} \cup {<<n>> : n \in (-1)..MaxWorkers}
CpuCounts == {<<>>, <<1>>, <<MaxWorkers>>}

\* One CLI run over a directory, for every worker count and platform.
PoolInit ==
    /\ inputKind = "dir"
    /\ files_to_process \in Listings(FileDescs, MaxFiles)
    /\ overwrite = TRUE
    /\ formats_filter = {}
    /\ workersArg \in WorkerArgs
    /\ cpu_count \in CpuCounts
    /\ workers = ResolveWorkers(workersArg, cpu_count)
    /\ outputs0 = [s \in Stems |-> Absent]
    /\ pc = "main"
    /\ submitted = 0
    /\ collected = {}
    /\ converted_files = <<>>
    /\ failed_files = <<>>
    /\ counts = NoCounts
    /\ raised = "-"
    /\ master = NoMaster
    /\ exitCode = NotExited
    /\ fut = [f \in FileIds |-> "unsubmitted"]
    /\ futResult = [f \in FileIds |-> "pending"]
    /\ outputs = outputs0
    /\ trace = [f \in FileIds |-> NoTrace]
    /\ arcKind = "zip"
    /\ arcEntries = <<>>
    /\ arcBudget = 0
    /\ stack = <<>>
    /\ scratch = {}
    /\ arcResult = "-"
    /\ arcListing = <<>>
    /\ LibIdle

PoolSpec == PoolInit /\ [][Next]_vars

\* C21 as stated: at every moment at most pool-size files are being
\* processed, the pool size is the worker count the caller gave when one was
\* given and the platform default otherwise, and it is at least 1 for every
\* worker count.
C21_BoundedPoolAsStated ==
    /\ Cardinality(InFlight) <= workers
    /\ workersArg # <<>> => workers = workersArg[1]
    /\ workersArg = <<>> => workers = PlatformDefault(cpu_count)
    /\ workers >= 1
\* C21: whenever files are being processed they are at most pool-size many
\* and the pool size is at least 1; the pool size is the worker count the
\* caller gave when it is not 0, and the platform default (the CPU count, or
\* 1 when that is unknown), at least 1, when none or 0 was given; with a
\* negative worker count no pool exists: no file is ever submitted and a run
\* that found files ends with ValueError, exit status 1.
C21_BoundedPool ==
    /\ InFlight # {} => workers >= 1 /\ Cardinality(InFlight) <= workers
    /\ (workersArg # <<>> /\ workersArg[1] # 0) => workers = workersArg[1]
    /\ (workersArg = <<>> \/ workersArg = <<0>>) =>
          workers = PlatformDefault(cpu_count) /\ workers >= 1
    /\ workers < 1 =>
          /\ workersArg # <<>> /\ workersArg[1] < 0
          /\ \A f \in FileIds : fut[f] = "unsubmitted"
          /\ (pc = "exited" /\ NFiles > 0) =>
                raised = "ValueError" /\ exitCode = <<ExitFailure>>
C21_Witness ==
    /\ workersArg = <<0>>
    /\ cpu_count = <<>>
    /\ workers = 1
    /\ Cardinality(InFlight) = 1
    /\ Queued # {}

\* ------------------------------------------------------------ claim C22
\* The files that opened <stem>.json for writing and wrote into it.
Writers(s) ==
    {f \in FileIds :
        /\ StemOf(f) = s
        /\ trace[f].outcome = "success" \/ trace[f].error = "dump_error"}
SameStem(s) == {f \in FileIds : StemOf(f) = s}
\* C22 as stated: with overwrite off the check and the write are atomic per
\* file: no worker writes a destination that exists when it writes, so a
\* destination is written at most once in a run, never when it was there
\* before, and of two files with one stem at most one is counted successful.
C22_CheckAndWriteAtomicAsStated ==
    ~overwrite =>
        \A s \in Stems :
            /\ Cardinality(Writers(s)) <=
                  (IF outputs0[s] = Absent THEN 1 ELSE 0)
            /\ Cardinality({f \in SameStem(s) : InConverted(f)}) <= 1
\* C22: with overwrite off, a destination that was there before the run is
\* never written; a worker that passed the check finds its destination
\* existing only when another input file of the same stem wrote it after
\* that check; so a destination is written at most once when no two input
\* files share its stem and in every run with a pool of one worker.
C22_CheckAndWriteAtomic ==
    ~overwrite =>
        \A s \in Stems :
            /\ outputs0[s] = Old => outputs[s] = Old /\ Writers(s) = {}
            /\ (workers = 1 \/ Cardinality(SameStem(s)) <= 1) =>
                  Cardinality(Writers(s)) <= 1
            /\ \A f \in SameStem(s) :
                  (fut[f] = "writing" /\ outputs[s].kind # "absent") =>
                      Writers(s) \ {f} # {}
C22_Witness ==
    /\ ~overwrite
    /\ Returned
    /\ \E s \in Stems :
          /\ Cardinality(Writers(s)) = 2
          /\ Cardinality({f \in SameStem(s) : InConverted(f)}) = 2

\* ------------------------------------------------------------ claim C23
IsPrefix(a, b) == Len(a) <= Len(b) /\ a = SubSeq(b, 1, Len(a))
ValueResults == {f \in FileIds : futResult[f] = "value"}
C23_NothingLost ==
    /\ \A i, j \in DOMAIN converted_files :
          i # j => converted_files[i] # converted_files[j]
    /\ \A i \in DOMAIN converted_files :
          /\ converted_files[i].of \in collected \cap ValueResults
          /\ converted_files[i] = Envelope(converted_files[i].of)
    /\ Returned =>
          \A f \in ValueResults :
              Cardinality({i \in DOMAIN converted_files :
                              converted_files[i] = Envelope(f)}) = 1
C23_AppendOnly ==
    /\ IsPrefix(converted_files, converted_files')
    /\ IsPrefix(failed_files, failed_files')
    /\ Len(converted_files') + Len(failed_files')
          <= Len(converted_files) + Len(failed_files) + 1
    /\ (converted_files' # converted_files \/ failed_files' # failed_files) =>
          /\ pc = "collect"
          /\ UNCHANGED poolVars
\* C23: the result collections are append-only and lose nothing: under every
\* interleaving each envelope a worker returned is in converted_files exactly
\* once when process returns; no step removes, replaces or duplicates an
\* entry; every change is one append made by the main thread in its collect
\* loop, in a step in which no worker acts.
C23_AppendOnlyNothingLost == [](C23_NothingLost) /\ [][C23_AppendOnly]_vars
C23_Witness ==
    /\ Returned
    /\ workers = 2
    /\ Len(converted_files) = 2
    /\ converted_files[1].of = 2
    /\ converted_files[2].of = 1

\* ================================== one FileProcessor, several process calls
\* processor.py 49-50 and 52-101: converted_files and failed_files are made
\* in __init__; process starts from what they hold.  The caller calls
\* process again on the same input once a call has returned; the output
\* directory is as the earlier call left it.
ProcessAgain ==
    /\ pc = "returned"
    /\ calls + 1 < MaxCalls
    /\ calls' = calls + 1
    /\ pc' = "process"
    /\ counts' = NoCounts
    /\ submitted' = 0
    /\ collected' = {}
    /\ fut' = [f \in FileIds |-> "unsubmitted"]
    /\ futResult' = [f \in FileIds |-> "pending"]
    /\ trace' = [f \in FileIds |-> NoTrace]
    /\ outputs0' = outputs
    /\ UNCHANGED <<inputKind, files_to_process, overwrite, formats_filter,
                   workersArg, cpu_count, workers, converted_files,
                   failed_files, raised, master, exitCode, outputs, arcVars,
                   libVars>>

ProcessorNext == Next \/ ProcessAgain
ProcessorSpec == Init /\ [][ProcessorNext]_vars

\* The files of the call under way that were converted and written.
SuccessesOfCall == {f \in FileIds : trace[f].outcome = "success"}
\* C24: the run state is empty when a call of process starts: the counts a
\* call returns, and the results then combined into master.json, cover the
\* files of that call only, whatever calls came before on the same
\* FileProcessor.
C24_RunStateFreshPerCall ==
    /\ Returned =>
          /\ counts.successful = Cardinality(SuccessesOfCall)
          /\ counts.successful + counts.failed <= NFiles
    /\ master.written =>
          /\ master.total_files = Cardinality(SuccessesOfCall)
          /\ \A i \in DOMAIN master.converted_files :
                master.converted_files[i].of \in SuccessesOfCall

\* ------------------------------------------------------------ claim C25
\* C25: when an interrupt reaches the orchestrator during a run, no file
\* that no pool thread had taken by then is started afterwards; the files in
\* flight finish, and the CLI exits with 130.
C25_InterruptStartsNothing ==
    raised = "KeyboardInterrupt" =>
        /\ \A f \in FileIds :
              trace[f].waiting =>
                  /\ fut[f] \in {"unsubmitted", "queued"}
                  /\ trace[f].runs = 0
        /\ pc = "exited" =>
              /\ exitCode = <<ExitInterrupted>>
              /\ \A f \in FileIds : ~trace[f].waiting => fut[f] = "done"

\* ------------------------------------------------------------ hashing
AllEmpty(md) == md.sha256 = NoDigest /\ md.sha1 = NoDigest /\ md.md5 = NoDigest
WholeFile(md, chunks) ==
    /\ md.sha256 = Hexdigest("sha256", chunks)
    /\ md.sha1 = Hexdigest("sha1", chunks)
    /\ md.md5 = Hexdigest("md5", chunks)

\* C29: when the stat succeeded, extract_metadata does not raise and
\* returns the size and the mtime; if reading failed at any point of the
\* hashing the three digests are all empty, and in every case they are
\* either all empty or all digests of the whole file.
C29_HashFailureGivesEmptyDigests ==
    (call.op = "extract_metadata" /\ ret.called /\ call.metaFault = "none") =>
        /\ ret.raised = "-"
        /\ ret.value.size = call.chunks
        /\ ret.value.mtime = call.mtime
        /\ call.hashFault # <<>> => AllEmpty(ret.value)
        /\ AllEmpty(ret.value) \/ WholeFile(ret.value, call.chunks)

\* Reading failed after one of the two chunks was hashed.
C29_Witness ==
    /\ call.op = "extract_metadata"
    /\ ret.called
    /\ call.metaFault = "none"
    /\ call.chunks = 2
    /\ call.hashFault = <<1>>
    /\ call.mtime > 0
    /\ ret.raised = "-"
    /\ AllEmpty(ret.value)
    /\ ret.value.size = 2

\* C30: in every envelope convert returns, metadata.mtime_iso is the ISO
\* string of metadata.mtime, for every mtime >= 0; it is never None.
C30_MtimeIsoNeverNull ==
    (conversion.called /\ conversion.outcome = "envelope") =>
        /\ conversion.metadata.mtime = call.mtime
        /\ conversion.metadata.mtime_iso # None
        /\ conversion.metadata.mtime_iso = isoformat(conversion.metadata.mtime)

\* ------------------------------------------------ extraction strategies
\* C27: for the PDF and the packet-capture handler, a first strategy that is
\* unavailable and a first strategy that raises an error both lead to the
\* second strategy being tried, and a result names in extraction_method the
\* strategy that produced it.
C27_FallThroughOnUnavailableOrError ==
    (call.op = "extract_data" /\ ret.called) =>
        LET names == Strategies(call.handler) IN
        /\ ret.value.tried[1] = names[1]
        /\ call.first = "ok" =>
              ret.raised = "-" /\ ret.value.extraction_method = names[1]
        /\ call.first \in {"unavailable", "error"} =>
              /\ ret.value.tried = names
              /\ call.second = "ok" =>
                    ret.raised = "-" /\ ret.value.extraction_method = names[2]

\* --------------------------------------------------- timestamps of lines
LineDecided(line, format) ==
    CASE line.iso = "parses" -> format = "iso8601"
      [] line.iso = "unparsable" -> format = "-"
      [] OTHER -> format = (IF line.epoch = "parses" THEN "epoch" ELSE "-")

\* C28: per line the ISO pattern decides when it matches (iso8601 if the
\* match parses, no timestamp if it does not), the epoch pattern decides only
\* when the ISO pattern does not match, and the extraction neither raises
\* nor drops a later line.
C28_FirstMatchingPatternDecides ==
    (call.op = "text_extract_data" /\ ret.called) =>
        /\ ret.raised = "-"
        /\ DOMAIN ret.value = DOMAIN call.lines
        /\ \A i \in DOMAIN call.lines :
              /\ ret.value[i].line_number = i
              /\ LineDecided(call.lines[i], ret.value[i].timestamp_format)

====
